---- MODULE Spec2Model ----
(***************************************************************************)
(* A model of the ZIP password-recovery program of this repository:        *)
(*   - run(), the generator thread, the worker threads, the reporter       *)
(*     thread and the Ctrl+C handler of src/challenges/brute_force_zip.rs, *)
(*   - verify_zip_crypto_password of src/utils/zip.rs, in 32-bit           *)
(*     wraparound arithmetic.                                              *)
(***************************************************************************)
EXTENDS Integers, Sequences, FiniteSets, TLC

(***************************************************************************)
(* Bounds of the model.  The program's alphabet has 36 symbols and its     *)
(* lengths are 4..=6; the model keeps the code and scales the sizes.       *)
(***************************************************************************)
CharsetSize == 1
MinLen == 1
MaxLen == 3
MaxCpus == 3
MaxPwLen == 2
MaxPlainLen == 2
MaxGenCharset == 3
MaxGenLen == 3
MaxEntries == 2

VARIABLES
    \* inputs of a run
    num_cpus,           \* num_cpus::get()
    gcharset,           \* the charset argument of spawn_password_generator
    min_len, max_len,   \* the bounds of its range of lengths
    accepted,           \* the candidates verify_zip_crypto_password accepts for
                        \* the target (secret_content, crc32)
    \* run()
    runPc, final_count, was_shutdown, was_found, outcome, reported,
    \* shared state
    password_counter, password_found, shutdown_signal,
    found_password, decrypted_content,
    \* the channel
    queue, tx_alive, rx_main_alive,
    \* generator thread
    genPc, length, indices,
    \* worker threads
    wpc, wpassword,
    \* reporter thread
    repPc, last_count,
    \* history: the order of the writes to the result slot, and which of
    \* "found" / "cancel" came first
    writes, first_event,
    \* history: the candidates sent and received, in order; how often each
    \* candidate was verified; the sends and the verifications begun while
    \* a flag was already raised
    sent, received, tested, late_sends, late_tests,
    \* one call of verify_zip_crypto_password
    enc_data, pw, expected_crc32,       \* its arguments
    last_mod_time,                      \* the entry's field, which it is not given
    origin,                             \* how enc_data was built
    vpc, vkeys, vi, decrypted, vcrc, vresult,
    n_decrypted,                        \* history: bytes decrypted so far
    \* one read of an archive: extract_all_files, alone or within run()
    file,                               \* the buffer
    zip_origin,                         \* how the buffer was built
    zip_caller, zip_pc,
    scan_i, eocd_pos,                   \* read_eocd: i and pos
    eocd,                               \* the record read_eocd returns
    cd_offset, entries_read, files,     \* extract_all_files: offset, loop, result
    entry_offsets,                      \* history: where the entries were read
    panic_msg,
    secret                              \* run(): the entry found by name

runVars == <<runPc, final_count, was_shutdown, was_found, outcome, reported>>
sharedVars == <<password_counter, password_found, shutdown_signal,
                found_password, decrypted_content>>
chanVars == <<queue, tx_alive, rx_main_alive>>
genVars == <<genPc, length, indices>>
workerVars == <<wpc, wpassword>>
repVars == <<repPc, last_count>>
inputVars == <<num_cpus, accepted, gcharset, min_len, max_len>>
logVars == <<sent, received, tested, late_sends, late_tests>>
histVars == <<writes, first_event, logVars>>

cipherVars == <<enc_data, pw, expected_crc32, last_mod_time, origin,
                vpc, vkeys, vi, decrypted, vcrc, vresult, n_decrypted>>

zipVars == <<file, zip_origin, zip_caller, zip_pc, scan_i, eocd_pos, eocd,
             cd_offset, entries_read, files, entry_offsets, panic_msg, secret>>

searchVars == <<inputVars, runVars, sharedVars, chanVars, genVars, workerVars,
                repVars, histVars>>

----------------------------------------------------------------------------
(* The candidate space *)

Alphabet == <<"a", "b", "c", "d">>

\* brute_force_zip.rs:148, scaled to CharsetSize symbols
charset == SubSeq(Alphabet, 1, CharsetSize)

RECURSIVE StringsOfLen(_)
StringsOfLen(n) ==
    IF n = 0 THEN {<<>>}
    ELSE {Append(s, charset[i]) : s \in StringsOfLen(n - 1), i \in 1..Len(charset)}

Candidates == UNION {StringsOfLen(n) : n \in MinLen..MaxLen}

\* line 52: indices.iter().map(|&i| charset[i]).collect()
PasswordOf(idx) == [k \in 1..Len(idx) |-> gcharset[idx[k] + 1]]

\* line 41: vec![0; length]
ZeroIndices(n) == [k \in 1..n |-> 0]

\* lines 60-68: the carry loop; pos is 1-based here, 0 is the code's pos < 0
RECURSIVE CarryNoReset(_, _)
CarryNoReset(idx, pos) ==
    IF pos = 0 THEN [indices |-> idx, pos |-> 0]
    ELSE IF idx[pos] + 1 < Len(gcharset)
         THEN [indices |-> [idx EXCEPT ![pos] = idx[pos] + 1], pos |-> pos]
         ELSE CarryNoReset([idx EXCEPT ![pos] = idx[pos] + 1], pos - 1)

RECURSIVE Carry(_, _)
Carry(idx, pos) ==
    IF pos = 0 THEN [indices |-> idx, pos |-> 0]
    ELSE IF idx[pos] + 1 < Len(gcharset)
         THEN [indices |-> [idx EXCEPT ![pos] = idx[pos] + 1], pos |-> pos]
         ELSE Carry([idx EXCEPT ![pos] = 0], pos - 1)

\* line 60: pos = length - 1, the last position
IncrementFirstPosition(idx) == Carry(idx, 1)
Increment(idx) == Carry(idx, Len(idx))

----------------------------------------------------------------------------
(* Workers *)

\* line 236
NumWorkers(cpus) == cpus - 1

WorkerIds == 1..(MaxCpus - 1)
Spawned == 1..NumWorkers(num_cpus)

\* line 109: the result of verify_zip_crypto_password(&secret_content, &password, crc32)
Accepts(password) == password \in accepted

\* line 113-114: decrypt_zip_crypto_content(&secret_content, &password)
Decrypt(password) == <<"plaintext", password>>

----------------------------------------------------------------------------
(* run() : final report, lines 270-306 *)

OutcomeFoundFirst(ws, wf) ==
    IF wf THEN "Found" ELSE IF ws THEN "Cancelled" ELSE "Exhausted"

Outcome(ws, wf) ==
    IF ws THEN "Cancelled" ELSE IF wf THEN "Found" ELSE "Exhausted"

NoResult == [password |-> <<>>, content |-> <<>>]

----------------------------------------------------------------------------
(* 32-bit words.  A u32 is the pair <<high 16 bits, low 16 bits>>, so that   *)
(* every intermediate value stays an exact integer and the arithmetic is    *)
(* the code's arithmetic modulo 2^32.                                       *)

Half == 256 * 256

U32(hi, lo) == <<hi, lo>>

RECURSIVE XorBits(_, _)
XorBits(a, b) ==
    IF a = 0 THEN b
    ELSE IF b = 0 THEN a
    ELSE ((a + b) % 2) + 2 * XorBits(a \div 2, b \div 2)

Xor32(x, y) == <<XorBits(x[1], y[1]), XorBits(x[2], y[2])>>

RECURSIVE OrBits(_, _)
OrBits(a, b) ==
    IF a = 0 THEN b
    ELSE IF b = 0 THEN a
    ELSE (IF a % 2 = 1 \/ b % 2 = 1 THEN 1 ELSE 0) + 2 * OrBits(a \div 2, b \div 2)

\* x >> 1
Shr1(x) == <<x[1] \div 2, (x[2] \div 2) + (x[1] % 2) * (Half \div 2)>>

\* wrapping_add
Add32(x, y) ==
    LET lo == x[2] + y[2]
    IN  <<(x[1] + y[1] + lo \div Half) % Half, lo % Half>>

\* a * b mod 2^16, for 16-bit a and b
MulMod16(a, b) ==
    ((a % 256) * b + (((a \div 256) * b) % 256) * 256) % Half

\* the full 32-bit product of 16-bit a and b
Mul16(a, b) ==
    LET p0 == (a % 256) * b
        p1 == (a \div 256) * b
        low == p0 + (p1 % 256) * 256
    IN  <<(p1 \div 256) + low \div Half, low % Half>>

\* wrapping_mul
Mul32(x, y) ==
    LET ll == Mul16(x[2], y[2])
        cross == MulMod16(x[1], y[2]) + MulMod16(x[2], y[1])
    IN  <<(ll[1] + cross) % Half, ll[2]>>

----------------------------------------------------------------------------
(* The ZipCrypto engine, src/utils/zip.rs lines 207-268 *)

\* zip.rs:3
ZIP_CRYPTO_HEADER_SIZE == 12

\* 0xEDB88320
CrcPoly == U32(60856, 33568)

\* 0xFFFFFFFF
AllOnes == U32(65535, 65535)

\* lines 221-227: one round of the bit loop
CrcRound(crc) ==
    IF crc[2] % 2 # 0 THEN Xor32(Shr1(crc), CrcPoly) ELSE Shr1(crc)

RECURSIVE CrcRounds(_, _)
CrcRounds(crc, n) == IF n = 0 THEN crc ELSE CrcRounds(CrcRound(crc), n - 1)

\* lines 219-229
crc32_update(crc, byte) == CrcRounds(Xor32(crc, U32(0, byte)), 8)

\* line 217
InitialKeys == <<U32(4660, 22136), U32(9029, 26505), U32(13398, 30864)>>

\* 134775813 = 0x08088405
KeyMultiplier == U32(2056, 33797)

\* lines 231-236
update_keys(keys, byte) ==
    LET k0 == crc32_update(keys[1], byte)
        k1 == Add32(Mul32(Add32(keys[2], U32(0, k0[2] % 256)), KeyMultiplier),
                    U32(0, 1))
        k2 == crc32_update(keys[3], k1[1] \div 256)
    IN  <<k0, k1, k2>>

\* lines 238-241
decrypt_byteNoOr(keys) ==
    LET temp == keys[3]
        prod == Mul32(temp, Xor32(temp, U32(0, 1)))
    IN  (prod[2] \div 256) % 256

decrypt_byte(keys) ==
    LET temp == <<keys[3][1], OrBits(keys[3][2], 2)>>
        prod == Mul32(temp, Xor32(temp, U32(0, 1)))
    IN  (prod[2] \div 256) % 256

\* password.bytes(): the UTF-8 bytes of a candidate over the alphabet
CharCode == [c \in {"a", "b", "c", "d"} |->
                CASE c = "a" -> 97 [] c = "b" -> 98 [] c = "c" -> 99 [] OTHER -> 100]

Bytes(s) == [k \in 1..Len(s) |-> CharCode[s[k]]]

\* line 250: for i in 0..encrypted_data.len()
DecryptEndHeaderOnly(data) == ZIP_CRYPTO_HEADER_SIZE
DecryptEnd(data) == Len(data)

\* line 253: the keys advance with the decrypted byte
FeedbackCipherByte(plain_byte, cipher_byte) == cipher_byte
Feedback(plain_byte, cipher_byte) == plain_byte

\* line 267
CrcMatchesAlways(c, expected) == TRUE
CrcMatches(c, expected) == c = expected

\* line 211: encrypted_data.len() < ZIP_CRYPTO_HEADER_SIZE
TooShortBelowEleven(data) == Len(data) < ZIP_CRYPTO_HEADER_SIZE - 1
TooShort(data) == Len(data) < ZIP_CRYPTO_HEADER_SIZE

\* lines 211-217
VerifyStart ==
    /\ vpc = "start"
    /\ IF TooShort(enc_data)
       THEN /\ vresult' = FALSE
            /\ vpc' = "done"
            /\ UNCHANGED vkeys
       ELSE /\ vkeys' = InitialKeys
            /\ vpc' = "key_init"
            /\ UNCHANGED vresult
    /\ UNCHANGED <<searchVars, zipVars, enc_data, pw, expected_crc32, last_mod_time,
                   origin, vi, decrypted, vcrc, n_decrypted>>

\* lines 244-249: one password byte; after the last, vec![0u8; len]
VerifyKeyInit ==
    /\ vpc = "key_init"
    /\ IF vi < Len(pw)
       THEN /\ vkeys' = update_keys(vkeys, Bytes(pw)[vi + 1])
            /\ vi' = vi + 1
            /\ UNCHANGED <<vpc, decrypted>>
       ELSE /\ vpc' = "decrypt"
            /\ vi' = 0
            /\ decrypted' = [k \in 1..Len(enc_data) |-> 0]
            /\ UNCHANGED vkeys
    /\ UNCHANGED <<searchVars, zipVars, enc_data, pw, expected_crc32, last_mod_time,
                   origin, vcrc, vresult, n_decrypted>>

\* lines 250-260: one byte of the data; after the last, crc = 0xFFFFFFFF
VerifyDecrypt ==
    /\ vpc = "decrypt"
    /\ IF vi < DecryptEnd(enc_data)
       THEN LET d == XorBits(enc_data[vi + 1], decrypt_byte(vkeys)) IN
            /\ decrypted' = [decrypted EXCEPT ![vi + 1] = d]
            /\ vkeys' = update_keys(vkeys, Feedback(d, enc_data[vi + 1]))
            /\ vi' = vi + 1
            /\ n_decrypted' = n_decrypted + 1
            /\ UNCHANGED <<vpc, vcrc>>
       ELSE /\ vpc' = "crc"
            /\ vi' = ZIP_CRYPTO_HEADER_SIZE
            /\ vcrc' = AllOnes
            /\ UNCHANGED <<decrypted, vkeys, n_decrypted>>
    /\ UNCHANGED <<searchVars, zipVars, enc_data, pw, expected_crc32, last_mod_time,
                   origin, vresult>>

\* lines 261-267: one byte of file_content; after the last, the final XOR
\* and the comparison
VerifyCrc ==
    /\ vpc = "crc"
    /\ IF vi < Len(decrypted)
       THEN /\ vcrc' = crc32_update(vcrc, decrypted[vi + 1])
            /\ vi' = vi + 1
            /\ UNCHANGED <<vpc, vresult>>
       ELSE /\ vcrc' = Xor32(vcrc, AllOnes)
            /\ vresult' = CrcMatches(Xor32(vcrc, AllOnes), expected_crc32)
            /\ vpc' = "done"
            /\ UNCHANGED vi
    /\ UNCHANGED <<searchVars, zipVars, enc_data, pw, expected_crc32, last_mod_time,
                   origin, vkeys, decrypted, n_decrypted>>

----------------------------------------------------------------------------
(* The inputs of a call of verify_zip_crypto_password *)

\* The CRC-32 of a byte string: accumulator 0xFFFFFFFF, final XOR
RECURSIVE CrcFold(_, _)
CrcFold(c, bytes) ==
    IF bytes = <<>> THEN c
    ELSE LET n == crc32_update(c, Head(bytes))
         IN  IF n[1] >= 0 THEN CrcFold(n, Tail(bytes)) ELSE n

Crc32(bytes) == Xor32(CrcFold(AllOnes, bytes), AllOnes)

RECURSIVE KeysAfter(_, _)
KeysAfter(k, bytes) ==
    IF bytes = <<>> THEN k
    ELSE LET n == update_keys(k, Head(bytes))
         IN  IF n[3][1] >= 0 THEN KeysAfter(n, Tail(bytes)) ELSE n

\* ZipCrypto encryption with the engine's keystream: the cipher byte is the
\* plain byte XOR decrypt_byte(keys), and the keys advance with the plain byte
RECURSIVE EncryptFrom(_, _, _)
EncryptFrom(k, bytes, out) ==
    IF bytes = <<>> THEN out
    ELSE LET c == XorBits(Head(bytes), decrypt_byte(k))
             n == update_keys(k, Head(bytes))
         IN  IF c >= 0 /\ n[3][1] >= 0
             THEN EncryptFrom(n, Tail(bytes), Append(out, c))
             ELSE out

Encrypt(password, bytes) ==
    EncryptFrom(KeysAfter(InitialKeys, Bytes(password)), bytes, <<>>)

\* brute_force_zip.rs line 114 calls decrypt_zip_crypto_content, which
\* utils/zip.rs does not define.  It is the decrypt operation of the
\* specification: header and payload decrypted with the keys of the
\* password, the 12-byte header stripped.
RECURSIVE DecryptFrom(_, _, _)
DecryptFrom(k, bytes, out) ==
    IF bytes = <<>> THEN out
    ELSE LET d == XorBits(Head(bytes), decrypt_byte(k))
             n == update_keys(k, d)
         IN  IF d >= 0 /\ n[3][1] >= 0
             THEN DecryptFrom(n, Tail(bytes), Append(out, d))
             ELSE out

decrypt_zip_crypto_content(data, password) ==
    LET all == DecryptFrom(KeysAfter(InitialKeys, Bytes(password)), data, <<>>)
    IN  SubSeq(all, ZIP_CRYPTO_HEADER_SIZE + 1, Len(all))

\* brute_force_zip.rs lines 109-122: after verify_zip_crypto_password has
\* returned true the worker decrypts the content and stores the password
\* and the content
WorkerDecryptContent ==
    /\ vpc = "done"
    /\ vresult
    /\ found_password' = pw
    /\ decrypted_content' = decrypt_zip_crypto_content(enc_data, pw)
    /\ vpc' = "stored"
    /\ UNCHANGED <<zipVars, runVars, inputVars, histVars, chanVars, genVars,
                   workerVars, repVars, password_counter, password_found,
                   shutdown_signal>>
    /\ UNCHANGED <<enc_data, pw, expected_crc32, last_mod_time, origin,
                   vkeys, vi, decrypted, vcrc, vresult, n_decrypted>>

RECURSIVE SeqsOver(_, _)
SeqsOver(S, n) ==
    IF n = 0 THEN {<<>>}
    ELSE {Append(q, x) : q \in SeqsOver(S, n - 1), x \in S}

CipherPasswords == UNION {SeqsOver({"a", "b"}, n) : n \in 1..MaxPwLen}

Plaintexts == UNION {SeqsOver({104, 105}, n) : n \in 0..MaxPlainLen}

\* a 12-byte encryption header whose last byte is 0x12
EncryptionHeader == <<1, 2, 3, 4, 5, 6, 7, 8, 9, 10, 11, 18>>

\* "full": all of the encrypted bytes; otherwise only the first bytes, fewer
\* than the header needs
Cuts == {"full", "empty", "short"}

CutOf(data, cut) ==
    CASE cut = "full" -> data
      [] cut = "empty" -> <<>>
      [] OTHER -> SubSeq(data, 1, ZIP_CRYPTO_HEADER_SIZE - 1)

InitVerify ==
    /\ \E ep \in CipherPasswords, plain \in Plaintexts, cut \in Cuts :
         /\ origin = [password |-> ep, plain |-> plain, cut |-> cut]
         /\ enc_data = CutOf(Encrypt(ep, EncryptionHeader \o plain), cut)
         /\ expected_crc32 \in {Crc32(plain), U32(0, 0), U32(4660, 22136)}
    /\ pw \in CipherPasswords
    /\ last_mod_time \in {4660, 39168}      \* high byte 0x12, or 0x99
    /\ vpc = "start"
    /\ vkeys = InitialKeys
    /\ vi = 0
    /\ decrypted = <<>>
    /\ vcrc = U32(0, 0)
    /\ vresult = FALSE
    /\ n_decrypted = 0

\* no call of verify_zip_crypto_password is being followed
IdleVerify ==
    /\ origin = [password |-> <<>>, plain |-> <<>>, cut |-> "empty"]
    /\ enc_data = <<>>
    /\ expected_crc32 = U32(0, 0)
    /\ pw = <<>>
    /\ last_mod_time = 0
    /\ vpc = "idle"
    /\ vkeys = InitialKeys
    /\ vi = 0
    /\ decrypted = <<>>
    /\ vcrc = U32(0, 0)
    /\ vresult = FALSE
    /\ n_decrypted = 0

----------------------------------------------------------------------------
(* The archive reader, src/utils/zip.rs lines 51-204 and 272-288.  A buffer  *)
(* is a sequence of bytes; the code's indices count from 0.                 *)

\* zip.rs:1, b"PK\x03\x04"
ZIP_FILE_SIGNATURE == <<80, 75, 3, 4>>

\* zip.rs:2, b"PK\x05\x06"
EOCD_SIGNATURE == <<80, 75, 5, 6>>

\* line 135: 0x02014b50
CD_ENTRY_SIGNATURE == U32(513, 19280)

\* &b[from..to] is inside the buffer; otherwise the slice expression panics
InRange(b, from, to) == from <= to /\ to <= Len(b)

\* &b[from..to]
Slice(b, from, to) == SubSeq(b, from + 1, to)

\* u16::from_le_bytes(b[at..at + 2])
U16At(b, at) == b[at + 1] + 256 * b[at + 2]

\* u32::from_le_bytes(b[at..at + 4]) as a 32-bit word
WordAt(b, at) == U32(b[at + 3] + 256 * b[at + 4], b[at + 1] + 256 * b[at + 2])

\* an index no buffer of the model reaches
Beyond == 2 ^ 29

\* u32::from_le_bytes(b[at..at + 4]) as usize; a usize has 64 bits, so no sum
\* of indices wraps, and a value of 2^29 or more is past the end of every
\* buffer here whatever it is exactly
IndexAt(b, at) ==
    IF b[at + 4] >= 32 THEN Beyond
    ELSE b[at + 1] + 256 * b[at + 2] + 65536 * b[at + 3] + 16777216 * b[at + 4]

\* String::from_utf8_lossy on bytes: ASCII bytes are their characters, a byte
\* that is not ASCII decodes to no ASCII character (written U+FFFD)
Utf8Lossy(b) == [j \in 1..Len(b) |-> IF b[j] < 128 THEN b[j] ELSE 65533]

\* "secret.txt"
SecretName == <<115, 101, 99, 114, 101, 116, 46, 116, 120, 116>>

\* line 53: bytes.len().saturating_sub(4)
ScanStartSkipsLast(b) == IF Len(b) >= 5 THEN Len(b) - 5 ELSE 0
ScanStart(b) == IF Len(b) >= 4 THEN Len(b) - 4 ELSE 0

\* line 56
SignatureAt(b, at) == Slice(b, at, at + 4) = EOCD_SIGNATURE

\* lines 63-72: every slice of read_eocd at position p is inside the buffer
EocdReadable(b, p) ==
    /\ InRange(b, p + 4, p + 22)
    /\ InRange(b, p + 22, p + 22 + U16At(b, p + 20))

\* lines 63-84
EocdAt(b, p) ==
    [disk_number |-> U16At(b, p + 4),
     start_disk |-> U16At(b, p + 6),
     entries_on_disk |-> U16At(b, p + 8),
     total_entries |-> U16At(b, p + 10),
     central_directory_size |-> IndexAt(b, p + 12),
     central_directory_offset |-> IndexAt(b, p + 16),
     comment_length |-> U16At(b, p + 20),
     comment |-> Utf8Lossy(Slice(b, p + 22, p + 22 + U16At(b, p + 20)))]

NoEocd == EocdAt([j \in 1..22 |-> 0], 0)

\* line 135: assert_eq!(sig, 0x02014b50)
ValidEntrySignatureAlways(sig) == TRUE
ValidEntrySignature(sig) == sig = CD_ENTRY_SIGNATURE

\* lines 136-159: every slice of the entry's fields is inside the buffer
EntryReadable(b, at) ==
    /\ InRange(b, at + 8, at + 46)
    /\ InRange(b, at + 46, at + 46 + U16At(b, at + 28))

\* line 161
NextOffsetNoComment(filename_end, extra_len, comment_len) ==
    filename_end + extra_len
NextOffset(filename_end, extra_len, comment_len) ==
    filename_end + extra_len + comment_len

\* lines 136-177: the entry and the offset of the next one
read_central_directory_entry(b, at) ==
    LET filename_len == U16At(b, at + 28)
        filename_end == at + 46 + filename_len
    IN  [entry |->
            [filename |-> Utf8Lossy(Slice(b, at + 46, filename_end)),
             general_purpose_flag |-> U16At(b, at + 8),
             compression_method |-> U16At(b, at + 10),
             last_mod_time |-> U16At(b, at + 12),
             crc32 |-> WordAt(b, at + 16),
             compressed_size |-> IndexAt(b, at + 20),
             uncompressed_size |-> IndexAt(b, at + 24),
             local_header_offset |-> IndexAt(b, at + 42)],
         next_offset |->
            NextOffset(filename_end, U16At(b, at + 30), U16At(b, at + 32))]

\* lines 185-190: the lengths are those of the local header
DataStartNoExtra(b, at) == at + 30 + U16At(b, at + 26)
DataStart(b, at) == at + 30 + U16At(b, at + 26) + U16At(b, at + 28)

\* lines 183-193: every slice of read_file_content is inside the buffer
ContentReadable(b, cde) ==
    /\ InRange(b, cde.local_header_offset + 26, cde.local_header_offset + 30)
    /\ InRange(b, DataStart(b, cde.local_header_offset),
               DataStart(b, cde.local_header_offset) + cde.compressed_size)

\* lines 182-194
read_file_content(b, cde) ==
    Slice(b, DataStart(b, cde.local_header_offset),
          DataStart(b, cde.local_header_offset) + cde.compressed_size)

\* A panic ends the read: a slice out of range ("slice index out of range"),
\* the assert_eq! of line 135, the panic! of run() line 144, the unwrap of
\* run() line 172
ZipPanic(msg) ==
    /\ zip_pc' = "panicked"
    /\ panic_msg' = msg

\* brute_force_zip.rs lines 142-145 and zip.rs 202-204; then read_eocd's
\* lines 52-53
RunCheckIfZip ==
    /\ zip_pc = "check_zip"
    /\ IF ~InRange(file, 0, 4)
       THEN ZipPanic("slice index out of range") /\ UNCHANGED scan_i
       ELSE IF Slice(file, 0, 4) # ZIP_FILE_SIGNATURE
       THEN ZipPanic("The downloaded file is not a ZIP file")
            /\ UNCHANGED scan_i
       ELSE /\ zip_pc' = "scan"
            /\ scan_i' = ScanStart(file)
            /\ UNCHANGED panic_msg
    /\ UNCHANGED <<searchVars, cipherVars, file, zip_origin, zip_caller,
                   eocd_pos, eocd, cd_offset, entries_read, files,
                   entry_offsets, secret>>

\* zip.rs lines 55-61: one iteration of the backward scan
ReadEocdScan ==
    /\ zip_pc = "scan"
    /\ IF scan_i > 0
       THEN IF SignatureAt(file, scan_i)
            THEN /\ eocd_pos' = scan_i
                 /\ zip_pc' = "eocd"
                 /\ UNCHANGED scan_i
            ELSE /\ scan_i' = scan_i - 1
                 /\ UNCHANGED <<eocd_pos, zip_pc>>
       ELSE /\ zip_pc' = "eocd"
            /\ UNCHANGED <<eocd_pos, scan_i>>
    /\ UNCHANGED <<searchVars, cipherVars, file, zip_origin, zip_caller,
                   eocd, cd_offset, entries_read, files, entry_offsets,
                   panic_msg, secret>>

\* zip.rs lines 63-84 and 273-275: the record at pos, then the start of the
\* loop over the entries
ReadEocdFields ==
    /\ zip_pc = "eocd"
    /\ IF EocdReadable(file, eocd_pos)
       THEN /\ eocd' = EocdAt(file, eocd_pos)
            /\ cd_offset' = EocdAt(file, eocd_pos).central_directory_offset
            /\ zip_pc' = "entry"
            /\ UNCHANGED panic_msg
       ELSE /\ ZipPanic("slice index out of range")
            /\ UNCHANGED <<eocd, cd_offset>>
    /\ UNCHANGED <<searchVars, cipherVars, file, zip_origin, zip_caller,
                   scan_i, eocd_pos, entries_read, files, entry_offsets,
                   secret>>

\* zip.rs lines 277-285: one iteration, read_central_directory_entry and
\* read_file_content included
ReadEntry ==
    /\ zip_pc = "entry"
    /\ entries_read < eocd.total_entries
    /\ entry_offsets' = Append(entry_offsets, cd_offset)
    /\ IF ~InRange(file, cd_offset, cd_offset + 4)
       THEN /\ ZipPanic("slice index out of range")
            /\ UNCHANGED <<cd_offset, entries_read, files>>
       ELSE IF ~ValidEntrySignature(WordAt(file, cd_offset))
       THEN /\ ZipPanic("Invalid CD entry signature")
            /\ UNCHANGED <<cd_offset, entries_read, files>>
       ELSE IF ~EntryReadable(file, cd_offset)
       THEN /\ ZipPanic("slice index out of range")
            /\ UNCHANGED <<cd_offset, entries_read, files>>
       ELSE LET r == read_central_directory_entry(file, cd_offset) IN
            IF ~ContentReadable(file, r.entry)
            THEN /\ ZipPanic("slice index out of range")
                 /\ UNCHANGED <<cd_offset, entries_read, files>>
            ELSE /\ files' = Append(files, <<r.entry.filename,
                                             read_file_content(file, r.entry),
                                             r.entry.crc32>>)
                 /\ cd_offset' = r.next_offset
                 /\ entries_read' = entries_read + 1
                 /\ UNCHANGED <<zip_pc, panic_msg>>
    /\ UNCHANGED <<searchVars, cipherVars, file, zip_origin, zip_caller,
                   scan_i, eocd_pos, eocd, secret>>

\* zip.rs line 287: return result, to run() or to another caller
ExtractReturn ==
    /\ zip_pc = "entry"
    /\ entries_read >= eocd.total_entries
    /\ zip_pc' = IF zip_caller = "run" THEN "find" ELSE "returned"
    /\ UNCHANGED <<searchVars, cipherVars, file, zip_origin, zip_caller,
                   scan_i, eocd_pos, eocd, cd_offset, entries_read, files,
                   entry_offsets, panic_msg, secret>>

\* brute_force_zip.rs lines 169-173: files.iter().find(..).unwrap().clone();
\* after it run() goes on to spawn the threads (line 180)
RunFindSecret ==
    /\ zip_pc = "find"
    /\ LET hits == {j \in 1..Len(files) : files[j][1] = SecretName} IN
         IF hits = {}
         THEN ZipPanic("unwrap on None") /\ UNCHANGED secret
         ELSE /\ secret' = files[CHOOSE j \in hits : \A h \in hits : j <= h]
              /\ zip_pc' = "search"
              /\ UNCHANGED panic_msg
    /\ UNCHANGED <<searchVars, cipherVars, file, zip_origin, zip_caller,
                   scan_i, eocd_pos, eocd, cd_offset, entries_read, files,
                   entry_offsets>>

----------------------------------------------------------------------------
(* The buffers given to the reader *)

LE16(v) == <<v % 256, v \div 256>>

LE32(v) == <<v % 256, (v \div 256) % 256, (v \div 65536) % 256, v \div 16777216>>

Fill(count, value) == [j \in 1..count |-> value]

\* One archived file: its name, the lengths of the extra field in the local
\* header and of the extra field and comment in the central directory, its
\* stored bytes, and the fields the reader takes from the central directory
\* (crc, csize) or never reads (ltime, lcrc, lsize of the local header)
EntryOf(name, lextra, cextra, ccomment, payload) ==
    [name |-> name, lextra |-> lextra, cextra |-> cextra,
     ccomment |-> ccomment, payload |-> payload,
     crc |-> <<120, 86, 52, 146>>, csize |-> Len(payload),
     ltime |-> 4660, lcrc |-> <<120, 86, 52, 146>>, lsize |-> Len(payload)]

EntryShapes ==
    {EntryOf(SecretName, 0, 0, 0, <<9, 8, 7>>),
     EntryOf(SecretName, 1, 2, 3, <<9, 8, 7>>),
     EntryOf(<<97>>, 0, 0, 0, <<5>>),
     EntryOf(<<97>>, 1, 2, 3, <<5>>)}

\* local file header and data, 30 + n + m bytes and the payload
LocalFile(e) ==
    ZIP_FILE_SIGNATURE \o <<20, 0, 1, 0, 0, 0>> \o LE16(e.ltime) \o <<0, 0>>
        \o e.lcrc \o LE32(e.lsize) \o LE32(e.lsize) \o LE16(Len(e.name))
        \o LE16(e.lextra) \o e.name \o Fill(e.lextra, 1) \o e.payload

\* central directory entry, 46 + n + m + k bytes
DirectoryEntry(e, local_offset) ==
    <<80, 75, 1, 2, 20, 0, 20, 0, 1, 0, 0, 0>> \o LE16(e.ltime) \o <<0, 0>>
        \o e.crc \o LE32(e.csize) \o LE32(Len(e.payload)) \o LE16(Len(e.name))
        \o LE16(e.cextra) \o LE16(e.ccomment) \o <<0, 0, 0, 0, 0, 0, 0, 0>>
        \o LE32(local_offset) \o e.name \o Fill(e.cextra, 2)
        \o Fill(e.ccomment, 3)

RECURSIVE LocalFiles(_)
LocalFiles(es) ==
    IF es = <<>> THEN <<>> ELSE LocalFile(Head(es)) \o LocalFiles(Tail(es))

RECURSIVE Directory(_, _)
Directory(es, local_offset) ==
    IF es = <<>> THEN <<>>
    ELSE DirectoryEntry(Head(es), local_offset)
            \o Directory(Tail(es), local_offset + Len(LocalFile(Head(es))))

EocdRecord(total, size, at, comment) ==
    EOCD_SIGNATURE \o <<0, 0, 0, 0>> \o LE16(total) \o LE16(total)
        \o LE32(size) \o LE32(at) \o LE16(Len(comment)) \o comment

Archive(es, comment) ==
    LocalFiles(es) \o Directory(es, 0)
        \o EocdRecord(Len(es), Len(Directory(es, 0)), Len(LocalFiles(es)),
                      comment)

\* the offset of the k-th central directory entry
DirectoryOffset(es, k) ==
    Len(LocalFiles(es)) + Len(Directory(SubSeq(es, 1, k - 1), 0))

ArchiveComments == {<<>>, <<33>>, EOCD_SIGNATURE}

Mutations ==
    {"none", "drop_last", "head3", "drop_eocd", "no_eocd_signature",
     "bad_first_signature", "bad_last_signature", "oversize",
     "header_as_eocd"}

Applicable(es, comment, m) ==
    CASE m \in {"bad_first_signature", "oversize"} -> Len(es) >= 1
      [] m = "bad_last_signature" -> Len(es) >= 2
      [] m = "header_as_eocd" -> Len(es) = 1 /\ comment = <<>>
      [] OTHER -> TRUE

Overwrite(b, at, bs) ==
    [j \in 1..Len(b) |-> IF j > at /\ j <= at + Len(bs) THEN bs[j - at] ELSE b[j]]

\* "header_as_eocd": no EOCD record; the local header of the only file has
\* the central directory's offset in the upper half of its crc field, 1 as
\* its time and 0 as its sizes, as an archive written with sizes deferred
\* to a data descriptor may
HeaderAsEocd(e) ==
    LET at == Len(LocalFile(e))
        h == [e EXCEPT !.ltime = 1, !.lsize = 0,
                       !.lcrc = <<0, 0>> \o LE16(at)]
    IN  LocalFile(h) \o DirectoryEntry(e, 0)

Mutated(es, comment, m) ==
    LET good == Archive(es, comment)
        eocd_at == Len(good) - 22 - Len(comment)
    IN  CASE m = "none" -> good
          [] m = "drop_last" -> SubSeq(good, 1, Len(good) - 1)
          [] m = "head3" -> SubSeq(good, 1, 3)
          [] m = "drop_eocd" -> SubSeq(good, 1, eocd_at)
          [] m = "no_eocd_signature" -> Overwrite(good, eocd_at, <<0, 0, 0, 0>>)
          [] m = "bad_first_signature" ->
                Overwrite(good, DirectoryOffset(es, 1), <<80, 75, 1, 9>>)
          [] m = "bad_last_signature" ->
                Overwrite(good, DirectoryOffset(es, Len(es)), <<80, 75, 1, 9>>)
          [] m = "oversize" ->
                Archive([es EXCEPT ![Len(es)].csize = 65535], comment)
          [] OTHER -> HeaderAsEocd(es[1])

\* the buffer is any of these archives; run() reads it after its check of
\* the first four bytes, any other caller calls extract_all_files
InitZip ==
    /\ \E n \in 0..MaxEntries :
         \E es \in SeqsOver(EntryShapes, n), comment \in ArchiveComments,
            m \in Mutations :
           /\ Applicable(es, comment, m)
           /\ zip_origin = [entries |-> es, comment |-> comment, mutation |-> m]
           /\ file = Mutated(es, comment, m)
    /\ zip_caller \in {"run", "extract_all_files"}
    /\ zip_pc = IF zip_caller = "run" THEN "check_zip" ELSE "scan"
    /\ scan_i = IF zip_caller = "run" THEN 0 ELSE ScanStart(file)
    /\ eocd_pos = 0
    /\ eocd = NoEocd
    /\ cd_offset = 0
    /\ entries_read = 0
    /\ files = <<>>
    /\ entry_offsets = <<>>
    /\ panic_msg = "none"
    /\ secret = <<>>

\* no archive is being read
IdleZip ==
    /\ zip_origin = [entries |-> <<>>, comment |-> <<>>, mutation |-> "none"]
    /\ file = <<>>
    /\ zip_caller = "none"
    /\ zip_pc = "idle"
    /\ scan_i = 0
    /\ eocd_pos = 0
    /\ eocd = NoEocd
    /\ cd_offset = 0
    /\ entries_read = 0
    /\ files = <<>>
    /\ entry_offsets = <<>>
    /\ panic_msg = "none"
    /\ secret = <<>>

\* nothing sent, received or verified yet
InitLog ==
    /\ sent = <<>>
    /\ received = <<>>
    /\ tested = [c \in Candidates |-> 0]
    /\ late_sends = 0
    /\ late_tests = [w \in WorkerIds |-> 0]

\* either flag is up: password_found (line 124) or shutdown_signal (line 163)
FlagRaised == password_found \/ shutdown_signal

----------------------------------------------------------------------------
(* Initial state of a run: lines 148-167, before any thread is spawned *)

InitRun ==
    /\ gcharset = charset
    /\ min_len = MinLen
    /\ max_len = MaxLen
    /\ runPc = "idle"
    /\ final_count = 0
    /\ was_shutdown = FALSE
    /\ was_found = FALSE
    /\ outcome = "none"
    /\ reported = NoResult
    /\ password_counter = 0
    /\ password_found = FALSE
    /\ shutdown_signal = FALSE
    /\ found_password = <<>>
    /\ decrypted_content = <<>>
    /\ queue = <<>>
    /\ tx_alive = TRUE
    /\ rx_main_alive = TRUE
    /\ genPc = "unspawned"
    /\ length = MinLen
    /\ indices = <<>>
    /\ wpc = [w \in WorkerIds |-> "unspawned"]
    /\ wpassword = [w \in WorkerIds |-> <<>>]
    /\ repPc = "unspawned"
    /\ last_count = 0
    /\ writes = <<>>
    /\ first_event = "none"
    /\ InitLog

\* the machine's CPU count, and the target archive through the candidates
\* its payload and CRC-32 make verify_zip_crypto_password accept
InitSearch ==
    /\ num_cpus \in 1..MaxCpus
    /\ accepted \in SUBSET Candidates
    /\ InitRun

----------------------------------------------------------------------------
(* The Ctrl+C handler, lines 161-164 *)

InterruptToggles ==
    /\ runPc # "returned"
    /\ shutdown_signal' = ~shutdown_signal
    /\ first_event' = IF first_event = "none" THEN "cancel" ELSE first_event
    /\ UNCHANGED <<cipherVars, zipVars, inputVars, runVars, password_counter, password_found,
                   found_password, decrypted_content, chanVars, genVars,
                   workerVars, repVars, writes, logVars>>

Interrupt ==
    /\ runPc # "returned"
    /\ ~shutdown_signal
    /\ shutdown_signal' = TRUE
    /\ first_event' = IF first_event = "none" THEN "cancel" ELSE first_event
    /\ UNCHANGED <<cipherVars, zipVars, inputVars, runVars, password_counter, password_found,
                   found_password, decrypted_content, chanVars, genVars,
                   workerVars, repVars, writes, logVars>>

----------------------------------------------------------------------------
(* The generator thread, lines 37-77 *)

\* the head of `for length in 4..=6`: the next length, or the end of the loop
StartLength(len) ==
    IF len <= max_len
    THEN [pc |-> "check_found", length |-> len, indices |-> ZeroIndices(len)]
    ELSE [pc |-> "drop", length |-> len, indices |-> <<>>]

GenGoto(g) ==
    /\ genPc' = g.pc
    /\ length' = g.length
    /\ indices' = g.indices

\* line 45: found_flag_producer.load(); a set flag breaks the inner loop only
GenCheckFound ==
    /\ genPc = "check_found"
    /\ IF password_found
       THEN GenGoto(StartLength(length + 1))
       ELSE /\ genPc' = "check_shutdown"
            /\ UNCHANGED <<length, indices>>
    /\ UNCHANGED <<cipherVars, zipVars, inputVars, runVars, sharedVars, chanVars, workerVars,
                   repVars, histVars>>

\* line 46: shutdown_signal_producer.load()
GenCheckShutdown ==
    /\ genPc = "check_shutdown"
    /\ IF shutdown_signal
       THEN GenGoto(StartLength(length + 1))
       ELSE /\ genPc' = "send"
            /\ UNCHANGED <<length, indices>>
    /\ UNCHANGED <<cipherVars, zipVars, inputVars, runVars, sharedVars, chanVars, workerVars,
                   repVars, histVars>>

\* a send fails when every receiver is gone: rx_main and the workers' clones
ReceiversAlive ==
    rx_main_alive \/ \E w \in Spawned : wpc[w] # "finished"

\* lines 52-71: send the candidate, then advance the mixed-radix counter
GenSend ==
    /\ genPc = "send"
    /\ ReceiversAlive
    /\ queue' = Append(queue, PasswordOf(indices))
    /\ sent' = Append(sent, PasswordOf(indices))
    /\ late_sends' = late_sends + (IF FlagRaised THEN 1 ELSE 0)
    /\ LET inc == Increment(indices) IN
         IF inc.pos = 0
         THEN GenGoto(StartLength(length + 1))
         ELSE GenGoto([pc |-> "check_found", length |-> length,
                       indices |-> inc.indices])
    /\ UNCHANGED <<cipherVars, zipVars, inputVars, runVars, sharedVars, tx_alive, rx_main_alive,
                   workerVars, repVars, writes, first_event, received, tested,
                   late_tests>>

\* lines 54-57: the channel is closed, break out of the inner loop
GenSendFails ==
    /\ genPc = "send"
    /\ ~ReceiversAlive
    /\ GenGoto(StartLength(length + 1))
    /\ UNCHANGED <<cipherVars, zipVars, inputVars, runVars, sharedVars, chanVars, workerVars,
                   repVars, histVars>>

\* line 76: drop(tx_main)
GenKeepsSender ==
    /\ genPc = "drop"
    /\ genPc' = "finished"
    /\ UNCHANGED <<cipherVars, zipVars, inputVars, runVars, sharedVars, chanVars,
                   length, indices, workerVars, repVars, histVars>>

GenDrop ==
    /\ genPc = "drop"
    /\ tx_alive' = FALSE
    /\ genPc' = "finished"
    /\ UNCHANGED <<cipherVars, zipVars, inputVars, runVars, sharedVars, queue, rx_main_alive,
                   length, indices, workerVars, repVars, histVars>>

Generator ==
    GenCheckFound \/ GenCheckShutdown \/ GenSend \/ GenSendFails \/ GenDrop

----------------------------------------------------------------------------
(* A worker thread, lines 91-129 *)

WorkerGoto(w, pc) == wpc' = [wpc EXCEPT ![w] = pc]

\* line 94: rx_worker.recv() returns the head of the queue
WorkerRecv(w) ==
    /\ wpc[w] = "recv"
    /\ queue # <<>>
    /\ wpassword' = [wpassword EXCEPT ![w] = Head(queue)]
    /\ queue' = Tail(queue)
    /\ received' = Append(received, Head(queue))
    /\ WorkerGoto(w, "check_shutdown")
    /\ UNCHANGED <<cipherVars, zipVars, inputVars, runVars, sharedVars, tx_alive, rx_main_alive,
                   genVars, repVars, writes, first_event, sent, tested,
                   late_sends, late_tests>>

\* line 94: recv() is an Err once the sender is dropped and the queue is empty
WorkerRecvClosed(w) ==
    /\ wpc[w] = "recv"
    /\ queue = <<>>
    /\ ~tx_alive
    /\ WorkerGoto(w, "finished")
    /\ UNCHANGED <<cipherVars, zipVars, inputVars, runVars, sharedVars, chanVars, genVars,
                   wpassword, repVars, histVars>>

\* lines 96-99
WorkerIgnoresShutdown(w) ==
    /\ wpc[w] = "check_shutdown"
    /\ WorkerGoto(w, "check_found")
    /\ UNCHANGED <<cipherVars, zipVars, inputVars, runVars, sharedVars, chanVars, genVars,
                   wpassword, repVars, histVars>>

WorkerCheckShutdown(w) ==
    /\ wpc[w] = "check_shutdown"
    /\ WorkerGoto(w, IF shutdown_signal THEN "finished" ELSE "check_found")
    /\ UNCHANGED <<cipherVars, zipVars, inputVars, runVars, sharedVars, chanVars, genVars,
                   wpassword, repVars, histVars>>

\* lines 101-104
WorkerCheckFound(w) ==
    /\ wpc[w] = "check_found"
    /\ WorkerGoto(w, IF password_found THEN "finished" ELSE "count")
    /\ UNCHANGED <<cipherVars, zipVars, inputVars, runVars, sharedVars, chanVars, genVars,
                   wpassword, repVars, histVars>>

\* line 107: fetch_add(1, Ordering::Relaxed)
FetchAddLost(counter) == counter
FetchAdd(counter) == counter + 1

\* line 107: password_counter.fetch_add(1); the verification begins
WorkerCount(w) ==
    /\ wpc[w] = "count"
    /\ password_counter' = FetchAdd(password_counter)
    /\ late_tests' = [late_tests EXCEPT
                        ![w] = @ + (IF FlagRaised THEN 1 ELSE 0)]
    /\ WorkerGoto(w, "verify")
    /\ UNCHANGED <<cipherVars, zipVars, inputVars, runVars, password_found, shutdown_signal,
                   found_password, decrypted_content, chanVars, genVars,
                   wpassword, repVars, writes, first_event, sent, received,
                   tested, late_sends>>

\* lines 109 and 126-127: a rejected candidate sends the worker back to recv()
AfterVerifySkipsStore(ok) == IF ok THEN "set_found" ELSE "recv"
AfterVerifyBreaks(ok) == IF ok THEN "store_password" ELSE "finished"
AfterVerify(ok) == IF ok THEN "store_password" ELSE "recv"

\* lines 109-114: verify, and on success decrypt (both local to the worker)
WorkerVerify(w) ==
    /\ wpc[w] = "verify"
    /\ WorkerGoto(w, AfterVerify(Accepts(wpassword[w])))
    /\ tested' = [tested EXCEPT ![wpassword[w]] = @ + 1]
    /\ UNCHANGED <<cipherVars, zipVars, inputVars, runVars, sharedVars, chanVars, genVars,
                   wpassword, repVars, writes, first_event, sent, received,
                   late_sends, late_tests>>

\* lines 117-119: lock found_password and overwrite it
WorkerStorePassword(w) ==
    /\ wpc[w] = "store_password"
    /\ found_password' = wpassword[w]
    /\ writes' = Append(writes, <<w, "password">>)
    /\ WorkerGoto(w, "store_content")
    /\ UNCHANGED <<cipherVars, zipVars, inputVars, runVars, password_counter, password_found,
                   shutdown_signal, decrypted_content, chanVars, genVars,
                   wpassword, repVars, first_event, logVars>>

\* lines 120-122: lock decrypted_content and overwrite it
WorkerStoreContent(w) ==
    /\ wpc[w] = "store_content"
    /\ decrypted_content' = Decrypt(wpassword[w])
    /\ writes' = Append(writes, <<w, "content">>)
    /\ WorkerGoto(w, "set_found")
    /\ UNCHANGED <<cipherVars, zipVars, inputVars, runVars, password_counter, password_found,
                   shutdown_signal, found_password, chanVars, genVars,
                   wpassword, repVars, first_event, logVars>>

\* lines 124-125: password_found.store(true); break
WorkerSetFound(w) ==
    /\ wpc[w] = "set_found"
    /\ password_found' = TRUE
    /\ first_event' = IF first_event = "none" THEN "found" ELSE first_event
    /\ WorkerGoto(w, "finished")
    /\ UNCHANGED <<cipherVars, zipVars, inputVars, runVars, password_counter, shutdown_signal,
                   found_password, decrypted_content, chanVars, genVars,
                   wpassword, repVars, writes, logVars>>

Worker(w) ==
    \/ WorkerRecv(w)
    \/ WorkerRecvClosed(w)
    \/ WorkerCheckShutdown(w)
    \/ WorkerCheckFound(w)
    \/ WorkerCount(w)
    \/ WorkerVerify(w)
    \/ WorkerStorePassword(w)
    \/ WorkerStoreContent(w)
    \/ WorkerSetFound(w)

----------------------------------------------------------------------------
(* The reporter thread, lines 180-225 *)

\* line 186 and 189: sleep, then found_flag_logger.load()
RepCheckFound ==
    /\ repPc = "sleep"
    /\ repPc' = IF password_found THEN "finished" ELSE "check_shutdown"
    /\ UNCHANGED <<cipherVars, zipVars, inputVars, runVars, sharedVars, chanVars, genVars,
                   workerVars, last_count, histVars>>

\* line 190: shutdown_signal_logger.load()
RepCheckShutdown ==
    /\ repPc = "check_shutdown"
    /\ repPc' = IF shutdown_signal THEN "finished" ELSE "read"
    /\ UNCHANGED <<cipherVars, zipVars, inputVars, runVars, sharedVars, chanVars, genVars,
                   workerVars, last_count, histVars>>

\* lines 195-223: counter_clone.load(), print the rates, last_count = current_count
RepReadSwaps ==
    /\ repPc = "read"
    /\ last_count' = password_counter
    /\ password_counter' = 0
    /\ repPc' = "sleep"
    /\ UNCHANGED <<cipherVars, zipVars, inputVars, runVars, password_found,
                   shutdown_signal, found_password, decrypted_content,
                   chanVars, genVars, workerVars, histVars>>

RepRead ==
    /\ repPc = "read"
    /\ last_count' = password_counter
    /\ repPc' = "sleep"
    /\ UNCHANGED <<cipherVars, zipVars, inputVars, runVars, sharedVars, chanVars, genVars,
                   workerVars, histVars>>

Reporter == RepCheckFound \/ RepCheckShutdown \/ RepRead

----------------------------------------------------------------------------
(* run(), lines 175-312 *)

\* lines 180-254: spawn the reporter, the generator and num_workers workers
RunSpawn ==
    /\ runPc = "idle"
    /\ runPc' = "join"
    /\ repPc' = "sleep"
    /\ GenGoto(StartLength(min_len))
    /\ wpc' = [w \in WorkerIds |-> IF w \in Spawned THEN "recv" ELSE "unspawned"]
    /\ UNCHANGED <<cipherVars, zipVars, inputVars, final_count, was_shutdown, was_found, outcome,
                   reported, sharedVars, chanVars, wpassword, last_count,
                   histVars>>

\* lines 257-262: join every worker, then load the counter
RunJoin ==
    /\ runPc = "join"
    /\ \A w \in Spawned : wpc[w] = "finished"
    /\ final_count' = password_counter
    /\ runPc' = "load_shutdown"
    /\ UNCHANGED <<cipherVars, zipVars, inputVars, was_shutdown, was_found, outcome, reported,
                   sharedVars, chanVars, genVars, workerVars, repVars, histVars>>

\* line 270
RunLoadShutdown ==
    /\ runPc = "load_shutdown"
    /\ was_shutdown' = shutdown_signal
    /\ runPc' = "load_found"
    /\ UNCHANGED <<cipherVars, zipVars, inputVars, final_count, was_found, outcome, reported,
                   sharedVars, chanVars, genVars, workerVars, repVars, histVars>>

\* line 271
RunLoadFound ==
    /\ runPc = "load_found"
    /\ was_found' = password_found
    /\ runPc' = "report"
    /\ UNCHANGED <<cipherVars, zipVars, inputVars, final_count, was_shutdown, outcome, reported,
                   sharedVars, chanVars, genVars, workerVars, repVars, histVars>>

\* lines 273-311: "All threads have finished." and the outcome
RunReport ==
    /\ runPc = "report"
    /\ outcome' = Outcome(was_shutdown, was_found)
    /\ reported' = IF Outcome(was_shutdown, was_found) = "Found"
                   THEN [password |-> found_password, content |-> decrypted_content]
                   ELSE NoResult
    /\ runPc' = "done"
    /\ UNCHANGED <<cipherVars, zipVars, inputVars, final_count, was_shutdown, was_found,
                   sharedVars, chanVars, genVars, workerVars, repVars, histVars>>

\* line 312: run() returns and drops rx_main
RunReturn ==
    /\ runPc = "done"
    /\ runPc' = "returned"
    /\ rx_main_alive' = FALSE
    /\ UNCHANGED <<cipherVars, zipVars, inputVars, final_count, was_shutdown, was_found, outcome,
                   reported, sharedVars, queue, tx_alive, genVars, workerVars,
                   repVars, histVars>>

Run ==
    RunSpawn \/ RunJoin \/ RunLoadShutdown \/ RunLoadFound \/ RunReport \/ RunReturn

----------------------------------------------------------------------------

vars == <<searchVars, cipherVars, zipVars>>

Init == InitSearch /\ IdleVerify /\ IdleZip

Next ==
    \/ Interrupt
    \/ Run
    \/ Generator
    \/ \E w \in WorkerIds : Worker(w)
    \/ Reporter

Spec == Init /\ [][Next]_vars

\* The threads are operating-system threads: each one that can take a step
\* eventually takes one.  Nothing makes Ctrl+C happen.
Fairness ==
    /\ WF_vars(Run)
    /\ WF_vars(Generator)
    /\ \A w \in WorkerIds : WF_vars(Worker(w))

FairSpec == Spec /\ Fairness

\* no run is going on: the state of the search before run() starts
IdleSearch ==
    /\ num_cpus = 1
    /\ accepted = {}
    /\ InitRun

CipherInit == IdleSearch /\ InitVerify /\ IdleZip

\* The generator thread alone, lines 29-78: run() has spawned it and holds
\* rx_main, no flag is raised, and nothing receives, so that the queue keeps
\* every candidate sent, in order
GenInit ==
    /\ num_cpus = 1
    /\ accepted = {}
    /\ gcharset \in {SubSeq(Alphabet, 1, n) : n \in 1..MaxGenCharset}
    /\ min_len \in 1..MaxGenLen
    /\ max_len \in min_len..MaxGenLen
    /\ runPc = "join"
    /\ final_count = 0
    /\ was_shutdown = FALSE
    /\ was_found = FALSE
    /\ outcome = "none"
    /\ reported = NoResult
    /\ password_counter = 0
    /\ password_found = FALSE
    /\ shutdown_signal = FALSE
    /\ found_password = <<>>
    /\ decrypted_content = <<>>
    /\ queue = <<>>
    /\ tx_alive = TRUE
    /\ rx_main_alive = TRUE
    /\ genPc = "check_found"
    /\ length = min_len
    /\ indices = ZeroIndices(min_len)
    /\ wpc = [w \in WorkerIds |-> "unspawned"]
    /\ wpassword = [w \in WorkerIds |-> <<>>]
    /\ repPc = "sleep"
    /\ last_count = 0
    /\ writes = <<>>
    /\ first_event = "none"
    /\ InitLog
    /\ IdleVerify
    /\ IdleZip

GenNext == GenCheckFound \/ GenCheckShutdown \/ GenSend \/ GenDrop

GenSpec == GenInit /\ [][GenNext]_vars

\* the generator is a thread of its own: it keeps taking steps
GenFairSpec == GenSpec /\ WF_vars(GenNext)

\* One read of an archive
ZipInit == IdleSearch /\ IdleVerify /\ InitZip

ZipNext ==
    \/ RunCheckIfZip
    \/ ReadEocdScan
    \/ ReadEocdFields
    \/ ReadEntry
    \/ ExtractReturn
    \/ RunFindSecret

ZipSpec == ZipInit /\ [][ZipNext]_vars

CipherNext ==
    \/ VerifyStart
    \/ VerifyKeyInit
    \/ VerifyDecrypt
    \/ VerifyCrc
    \/ WorkerDecryptContent

CipherSpec == CipherInit /\ [][CipherNext]_vars

----------------------------------------------------------------------------
(* Properties of the search *)

RunReported == runPc \in {"done", "returned"}

AllWorkersFinished == \A w \in Spawned : wpc[w] = "finished"

\* C1: with at least one worker, a candidate space that holds an accepted
\* password and no interrupt, the run terminates, its outcome is Found and
\* the password it reports is an accepted one (the accepted one when there
\* is only one), for every worker count and interleaving.
C1_FoundForEveryWorkerCount ==
    /\ [](RunReported /\ ~was_shutdown /\ NumWorkers(num_cpus) >= 1
            /\ accepted # {}
          => outcome = "Found" /\ reported.password \in accepted)
    /\ (NumWorkers(num_cpus) >= 1 /\ accepted # {}
          => <>(shutdown_signal \/ (RunReported /\ outcome = "Found")))

C1_Witness ==
    /\ RunReported
    /\ outcome = "Found"
    /\ NumWorkers(num_cpus) >= 2
    /\ ~shutdown_signal
    /\ reported.password \in accepted
    /\ password_counter > 1

\* C2: once a worker has stored both its password and its plaintext, no
\* other worker writes the result slot.
C2_AtMostOneCommit ==
    \A i, j, k \in DOMAIN writes :
        (i < j /\ j < k /\ writes[i][1] = writes[j][1]
            /\ writes[i][2] = "password" /\ writes[j][2] = "content")
        => writes[k][1] = writes[i][1]

\* C3: the run reports exactly one of Found, Exhausted, Cancelled, and a
\* password confirmed before any interrupt makes the outcome Found.
C3_FirstConditionWins ==
    RunReported =>
        /\ outcome \in {"Found", "Exhausted", "Cancelled"}
        /\ (first_event = "found" => outcome = "Found")

\* C4: a cancel flag raised during the search, before a password is found,
\* leads to the generator and every worker stopping and to the run
\* reporting Cancelled.
C4_CancelStopsTheRun ==
    (runPc = "join" /\ shutdown_signal /\ ~password_found)
        ~> (/\ runPc = "returned"
            /\ outcome = "Cancelled"
            /\ AllWorkersFinished
            /\ genPc = "finished")

C4_Witness ==
    /\ runPc = "returned"
    /\ outcome = "Cancelled"
    /\ first_event = "cancel"
    /\ password_counter >= 1
    /\ NumWorkers(num_cpus) >= 2
    /\ AllWorkersFinished
    /\ genPc = "finished"

\* C5: an Exhausted report comes only after the generator has emitted every
\* candidate and the workers have drained the queue, and the final attempt
\* counter is the size of the candidate space.
C5_ExhaustedAfterEveryCandidate ==
    (RunReported /\ outcome = "Exhausted") =>
        /\ genPc \in {"drop", "finished"}
        /\ queue = <<>>
        /\ final_count = Cardinality(Candidates)

\* C6: when the run reports, every thread it started has finished.
C6_AllThreadsFinishedAtReport ==
    runPc = "done" =>
        /\ AllWorkersFinished
        /\ genPc = "finished"
        /\ repPc = "finished"

\* C7: at least one worker is spawned, for every CPU count.
C7_AtLeastOneWorker ==
    runPc # "idle" => \E w \in WorkerIds : wpc[w] # "unspawned"

----------------------------------------------------------------------------
(* Properties of verify_zip_crypto_password *)

Payload(bytes) == SubSeq(bytes, ZIP_CRYPTO_HEADER_SIZE + 1, Len(bytes))

HighByte(u16) == u16 \div 256

\* C8: data encrypted with the engine's keystream under a password, a
\* 12-byte header first, is accepted under that password and the CRC-32 of
\* the plaintext.
C8_OwnCiphertextVerifies ==
    (vpc = "done" /\ origin.cut = "full" /\ origin.password = pw
        /\ expected_crc32 = Crc32(origin.plain))
    => vresult = TRUE

C8_Witness ==
    /\ vpc = "done"
    /\ origin.cut = "full"
    /\ origin.password = pw
    /\ Len(origin.plain) >= 1
    /\ expected_crc32 = Crc32(origin.plain)
    /\ vresult = TRUE

C10_AcceptOnlyOnCrc ==
    (vpc = "done" /\ vresult = TRUE)
    => /\ Len(enc_data) >= ZIP_CRYPTO_HEADER_SIZE
       /\ Crc32(Payload(decrypted)) = expected_crc32

C10_Witness ==
    /\ vpc = "done"
    /\ vresult = TRUE
    /\ Len(enc_data) > ZIP_CRYPTO_HEADER_SIZE
    /\ Crc32(Payload(decrypted)) = expected_crc32


\* C11: for every (ciphertext, password, stored CRC-32) that
\* verify_zip_crypto_password accepts, the decryption the worker stores is the
\* decrypted bytes without their 12-byte header, and the CRC-32 of that
\* plaintext is the stored CRC-32.
C11_DecryptReproducesCrc ==
    vpc = "stored"
        => /\ decrypted_content = Payload(decrypted)
           /\ Crc32(decrypted_content) = expected_crc32

C11_Witness ==
    /\ vpc = "stored"
    /\ Len(decrypted_content) = MaxPlainLen
    /\ decrypted_content = origin.plain


\* The register arithmetic of the claim, written on 8-bit limbs (least
\* significant first) with ordinary integer arithmetic
Limbs(x) == <<x[2] % 256, x[2] \div 256, x[1] % 256, x[1] \div 256>>

OfLimbs(b) == U32(b[3] + 256 * b[4], b[1] + 256 * b[2])

\* a + b mod 2^32
LimbAdd(a, b) ==
    LET s1 == a[1] + b[1]
        s2 == a[2] + b[2] + s1 \div 256
        s3 == a[3] + b[3] + s2 \div 256
        s4 == a[4] + b[4] + s3 \div 256
    IN  <<s1 % 256, s2 % 256, s3 % 256, s4 % 256>>

\* a * b mod 2^32
LimbMul(a, b) ==
    LET c1 == a[1] * b[1]
        c2 == a[1] * b[2] + a[2] * b[1] + c1 \div 256
        c3 == a[1] * b[3] + a[2] * b[2] + a[3] * b[1] + c2 \div 256
        c4 == a[1] * b[4] + a[2] * b[3] + a[3] * b[2] + a[4] * b[1]
                + c3 \div 256
    IN  <<c1 % 256, c2 % 256, c3 % 256, c4 % 256>>

\* bit i of n
BitOf(n, i) == (n \div (2 ^ i)) % 2

\* a XOR b of two bytes
ByteXor(a, b) ==
    LET x(i) == ((BitOf(a, i) + BitOf(b, i)) % 2) * (2 ^ i)
    IN  x(0) + x(1) + x(2) + x(3) + x(4) + x(5) + x(6) + x(7)

\* ((t * (t ^ 1)) >> 8) & 0xFF with t = key2 | 2: only the low 16 bits of t
\* reach the result
KeystreamByte(key2) ==
    LET lo == key2[2]
        t == IF BitOf(lo, 1) = 1 THEN lo ELSE lo + 2
        u == IF t % 2 = 0 THEN t + 1 ELSE t - 1
        p == LimbMul(<<t % 256, t \div 256, 0, 0>>, <<u % 256, u \div 256, 0, 0>>)
    IN  p[2]

\* (key1 + (key0 & 0xFF)) * 134775813 + 1; 134775813 = 0x08088405
Key1Step(key1, key0) ==
    OfLimbs(LimbAdd(LimbMul(LimbAdd(Limbs(key1), <<key0[2] % 256, 0, 0, 0>>),
                            <<5, 132, 8, 8>>),
                    <<1, 0, 0, 0>>))

\* the registers after the byte b
RegistersAfter(k, b) ==
    LET k0 == crc32_update(k[1], b)
        k1 == Key1Step(k[2], k0)
        k2 == crc32_update(k[3], k1[1] \div 256)
    IN  <<k0, k1, k2>>

\* C20: every decryption step takes the keystream byte
\* ((t * (t ^ 1)) >> 8) & 0xFF with t = key2 | 2, XORs it with the ciphertext
\* byte, and advances the registers with the resulting plaintext byte:
\* key0 = crc32_update(key0, b), key1 = (key1 + (key0 & 0xFF)) * 134775813 + 1,
\* key2 = crc32_update(key2, key1 >> 24), all modulo 2^32; the registers
\* start at (0x12345678, 0x23456789, 0x34567890) and are advanced by each
\* password byte in order.
C20_StepArithmetic ==
    /\ [](vpc = "key_init" /\ vi = 0
            => vkeys = <<U32(4660, 22136), U32(9029, 26505), U32(13398, 30864)>>)
    /\ [][/\ (vpc = "key_init" /\ vpc' = "key_init"
                => vkeys' = RegistersAfter(vkeys, Bytes(pw)[vi + 1]))
          /\ (vpc = "key_init" /\ vpc' = "decrypt" => vkeys' = vkeys)
          /\ (vpc = "decrypt" /\ vpc' = "decrypt"
                => /\ decrypted'[vi + 1]
                        = ByteXor(enc_data[vi + 1], KeystreamByte(vkeys[3]))
                   /\ vkeys' = RegistersAfter(vkeys, decrypted'[vi + 1]))]_vars

C20_Witness ==
    /\ vpc = "decrypt"
    /\ vi = ZIP_CRYPTO_HEADER_SIZE + MaxPlainLen
    /\ Len(pw) = MaxPwLen


\* The strings over cs of length len in lexicographic order by alphabet
\* index: the k-th one spells k in base Len(cs), most significant digit first
StringNo(cs, len, k) ==
    [j \in 1..len |-> cs[((k \div (Len(cs) ^ (len - j))) % Len(cs)) + 1]]

OfLength(cs, len) == [k \in 1..(Len(cs) ^ len) |-> StringNo(cs, len, k - 1)]

RECURSIVE Enumeration(_, _, _)
Enumeration(cs, lo, hi) ==
    IF lo > hi THEN <<>> ELSE OfLength(cs, lo) \o Enumeration(cs, lo + 1, hi)

IsPrefix(s, t) == Len(s) <= Len(t) /\ s = SubSeq(t, 1, Len(s))

\* C12: with no flag raised the generator emits every string over the
\* alphabet of each length of its range exactly once, lengths increasing and
\* each length in lexicographic order by alphabet index, then finishes and
\* closes the channel; for <<a, b>> and lengths 1..2 it emits a, b, aa, ab,
\* ba, bb.
C12_EnumerationOrder ==
    /\ [](/\ IsPrefix(queue, Enumeration(gcharset, min_len, max_len))
          /\ genPc = "finished"
                => /\ queue = Enumeration(gcharset, min_len, max_len)
                   /\ \A i, j \in 1..Len(queue) : i < j => queue[i] # queue[j]
                   /\ ~tx_alive
          /\ genPc = "finished" /\ gcharset = <<"a", "b">>
                /\ min_len = 1 /\ max_len = 2
                => queue = << <<"a">>, <<"b">>, <<"a", "a">>, <<"a", "b">>,
                              <<"b", "a">>, <<"b", "b">> >>)
    /\ <>(genPc = "finished")

C12_Witness ==
    /\ genPc = "finished"
    /\ gcharset = <<"a", "b">>
    /\ min_len = 1
    /\ max_len = 2
    /\ Len(queue) = 6


----------------------------------------------------------------------------
(* Properties of the archive reader *)

\* the offsets at which the buffer holds the EOCD signature
SignatureOffsets(b) == {at \in 0..(Len(b) - 4) : SignatureAt(b, at)}

Highest(offsets) == CHOOSE at \in offsets : \A other \in offsets : other <= at

\* a well-formed archive holds the EOCD signature exactly once
WellFormed ==
    /\ zip_origin.mutation = "none"
    /\ Cardinality(SignatureOffsets(file)) = 1

HasSecret == \E j \in 1..Len(zip_origin.entries) :
                 zip_origin.entries[j].name = SecretName

\* extract_all_files has returned its result
Extracted ==
    \/ zip_pc \in {"returned", "find", "search"}
    \/ zip_pc = "panicked" /\ panic_msg = "unwrap on None"

\* read_eocd has returned a record
EocdReturned == zip_pc = "entry" \/ Extracted

\* C13: for a well-formed buffer with one entry named "secret.txt" the
\* reader returns exactly one entry with that name, and its payload is the
\* slice that starts after the local header, at 30 plus the filename and
\* extra lengths of the local header (not those of the central directory),
\* and is exactly compressed_size bytes long.
C13_SinglePayloadSlice ==
    WellFormed /\ Len(zip_origin.entries) = 1
        /\ zip_origin.entries[1].name = SecretName
    => LET e == zip_origin.entries[1]
           start == 30 + Len(e.name) + e.lextra
       IN  /\ panic_msg = "none"
           /\ Extracted
                => /\ Len(files) = 1
                   /\ files[1][1] = SecretName
                   /\ files[1][2] = Slice(file, start, start + e.csize)
                   /\ files[1][2] = e.payload

C13_Witness ==
    /\ WellFormed
    /\ Len(zip_origin.entries) = 1
    /\ zip_origin.entries[1].name = SecretName
    /\ zip_origin.entries[1].lextra # zip_origin.entries[1].cextra
    /\ zip_pc = "returned"
    /\ Len(files) = 1

\* C14: whenever the buffer is shorter than the EOCD record or holds no
\* EOCD signature, locating the record fails: no record is returned and no
\* other bytes are parsed as one.
C14_MissingEocdFails ==
    Len(file) < 22 \/ SignatureOffsets(file) = {} => ~EocdReturned

\* C15: when the archive has no entry named "secret.txt", or is malformed,
\* run() ends before any candidate is generated or tested: it does not go
\* on to the search, no thread is started and the attempt counter is 0.
C15_NoSearchOnBadArchive ==
    zip_caller = "run" /\ (~WellFormed \/ ~HasSecret)
    => /\ zip_pc # "search"
       /\ runPc = "idle"
       /\ genPc = "unspawned"
       /\ repPc = "unspawned"
       /\ \A w \in WorkerIds : wpc[w] = "unspawned"
       /\ password_counter = 0

\* C16: the parse of the central directory fails with the bad-signature
\* error at the first entry read whose first four bytes are not 0x02014b50,
\* and then returns no entries: every entry read before it had the
\* signature, and a parse that returns has met no such entry.
C16_BadSignatureFails ==
    \A j \in 1..Len(entry_offsets) :
        LET at == entry_offsets[j] IN
        InRange(file, at, at + 4) /\ WordAt(file, at) # CD_ENTRY_SIGNATURE
        => /\ j = Len(entry_offsets)
           /\ zip_pc = "panicked"
           /\ panic_msg = "Invalid CD entry signature"
           /\ ~Extracted

C16_Witness ==
    /\ zip_origin.mutation = "bad_last_signature"
    /\ zip_pc = "panicked"
    /\ panic_msg = "Invalid CD entry signature"
    /\ Len(entry_offsets) = 2
    /\ Len(files) = 1

\* C17: the parser reads exactly total_entries entries in on-disk order:
\* the first at central_directory_offset, each next one at the previous
\* offset + 46 + filename length + extra length + comment length, and the
\* returned sequence keeps that order.
C17_EntriesInDiskOrder ==
    /\ Len(entry_offsets) <= eocd.total_entries
    /\ entry_offsets # <<>>
          => entry_offsets[1] = eocd.central_directory_offset
    /\ \A j \in 1..(Len(entry_offsets) - 1) :
          LET at == entry_offsets[j] IN
          entry_offsets[j + 1] = at + 46 + U16At(file, at + 28)
                                    + U16At(file, at + 30) + U16At(file, at + 32)
    /\ Extracted
          => /\ Len(entry_offsets) = eocd.total_entries
             /\ Len(files) = eocd.total_entries
             /\ \A j \in 1..Len(files) :
                   LET at == entry_offsets[j] IN
                   files[j][1] = Utf8Lossy(Slice(file, at + 46,
                                                 at + 46 + U16At(file, at + 28)))
    /\ Extracted /\ WellFormed
          => /\ Len(files) = Len(zip_origin.entries)
             /\ \A j \in 1..Len(files) :
                   /\ files[j][1] = zip_origin.entries[j].name
                   /\ files[j][2] = zip_origin.entries[j].payload

C17_Witness ==
    /\ WellFormed
    /\ zip_pc = "returned"
    /\ Len(files) = MaxEntries
    /\ MaxEntries >= 2
    /\ zip_origin.entries[1].ccomment > 0
    /\ files[1][1] # files[2][1]

\* C18: when the EOCD signature occurs at several offsets of the buffer,
\* the record is read at the highest of them, wherever the matches are,
\* offset 0 and offset len - 4 included.
C18_HighestSignatureWins ==
    /\ zip_pc = "eocd" /\ SignatureOffsets(file) # {}
          => eocd_pos = Highest(SignatureOffsets(file))
    /\ EocdReturned /\ SignatureOffsets(file) # {}
          => /\ eocd_pos = Highest(SignatureOffsets(file))
             /\ eocd = EocdAt(file, eocd_pos)

C18_Witness ==
    /\ zip_pc = "eocd"
    /\ Cardinality(SignatureOffsets(file)) >= 2
    /\ 0 \in SignatureOffsets(file)
    /\ Len(file) - 4 \in SignatureOffsets(file)
    /\ eocd_pos = Len(file) - 4

\* C19: a read of the archive whose slice would extend past the end of the
\* buffer gives a format error as a returned outcome and never an abort.
C19_TruncationNeverAborts ==
    zip_caller = "extract_all_files" => panic_msg # "slice index out of range"


----------------------------------------------------------------------------
(* Properties of the counters, the flags and the channel *)

RECURSIVE SumOver(_, _)
SumOver(f, S) ==
    IF S = {} THEN 0
    ELSE LET x == CHOOSE y \in S : TRUE IN f[x] + SumOver(f, S \ {x})

\* verifications begun: those that have returned and those under way
VerifiesStarted ==
    SumOver(tested, Candidates)
        + Cardinality({w \in WorkerIds : wpc[w] = "verify"})

\* candidates received and dropped at a flag check
Discarded ==
    Len(received) - SumOver(tested, Candidates)
        - Cardinality({w \in WorkerIds :
                         wpc[w] \in {"check_shutdown", "check_found", "count",
                                     "verify"}})

\* C21: the attempt counter counts the candidates actually tested: in every
\* reachable state it is the number of verifications the workers have begun,
\* it is never more than the number of candidates sent, and a candidate
\* received but dropped because a flag is set is not counted.
C21_CounterCountsVerifications ==
    /\ password_counter = VerifiesStarted
    /\ password_counter <= Len(sent)
    /\ password_counter + Discarded <= Len(received)
    /\ Discarded >= 0

C21_Witness ==
    /\ Discarded >= 1
    /\ password_counter >= 1
    /\ password_counter < Len(received)
    /\ runPc = "done"


\* C22: workers and generator check both flags before every candidate: once
\* either flag is raised, each worker begins at most one further
\* verification (the one whose flag checks came before the raise) and the
\* generator sends at most one further candidate, whatever the lengths left.
C22_AtMostOneAfterFlag ==
    /\ late_sends <= 1
    /\ \A w \in WorkerIds : late_tests[w] <= 1
    /\ ~FlagRaised => late_sends = 0 /\ \A w \in WorkerIds : late_tests[w] = 0

C22_Witness ==
    /\ late_sends = 1
    /\ \E w \in WorkerIds : late_tests[w] = 1
    /\ genPc = "finished"
    /\ AllWorkersFinished
    /\ Len(sent) < Cardinality(Candidates)


\* a worker holds the candidate of its last recv() until it has verified or
\* dropped it
Holding == {"check_shutdown", "check_found", "count", "verify"}

AllSentTested == \A j \in 1..Len(sent) : tested[sent[j]] >= 1

\* C23: each candidate sent is received by at most one worker and verified
\* at most once, each worker verifies its candidates in the order it
\* received them, and in every interleaving without a found or cancel event
\* every candidate sent is eventually verified by some worker.
C23_EachCandidateOnceAndEventually ==
    /\ [](/\ IsPrefix(received, sent)
          /\ \A i, j \in 1..Len(received) : i < j => received[i] # received[j]
          /\ \A c \in Candidates : tested[c] <= 1
          /\ \A w \in WorkerIds :
                wpc[w] \in Holding
                => /\ \E j \in 1..Len(received) : received[j] = wpassword[w]
                   /\ tested[wpassword[w]] = 0)
    /\ [][\A w \in WorkerIds :
            wpc[w] \in Holding /\ wpc'[w] \in Holding
            => wpassword'[w] = wpassword[w]]_vars
    /\ <>[](FlagRaised \/ AllSentTested)


\* C24: the found flag and the cancel flag are monotonic: each starts false
\* and, once set by a worker (found) or by the interrupt handler (cancel),
\* is never reset for the rest of the run.
C24_FlagsMonotonic ==
    /\ [](runPc = "idle" /\ first_event = "none"
            => ~password_found /\ ~shutdown_signal)
    /\ [][/\ password_found => password_found'
          /\ shutdown_signal => shutdown_signal']_vars

C24_Witness ==
    /\ password_found
    /\ shutdown_signal
    /\ runPc = "returned"

\* the steps of every thread but the reporter
NextWithoutReporter ==
    Interrupt \/ Run \/ Generator \/ (\E w \in WorkerIds : Worker(w))

\* C25: the reporter only observes: its steps read the attempt counter and
\* the flags and leave counter, flags, result slot and queue unchanged, so
\* that every run is, but for the reporter's own state, a run of the program
\* without the reporter, with the same terminal outcome and result.
C25_ReporterOnlyObserves ==
    /\ [][Reporter => UNCHANGED <<password_counter, password_found,
                                  shutdown_signal, found_password,
                                  decrypted_content, queue, runVars>>]_vars
    /\ [][NextWithoutReporter]_<<inputVars, runVars, sharedVars, chanVars,
                                 genVars, workerVars, histVars>>

C25_Witness ==
    /\ repPc = "finished"
    /\ last_count >= 1
    /\ runPc = "returned"
    /\ outcome = "Found"

\* C26: whenever the found flag is true the result slot already holds a
\* non-empty password that verify accepted for the target, together with
\* decrypted plaintext: a worker writes the slot before it raises the flag,
\* so a Found report never reads an empty or unverified result.
C26_SlotFilledBeforeFlag ==
    /\ password_found
          => /\ found_password # <<>>
             /\ Accepts(found_password)
             /\ \E p \in accepted : decrypted_content = Decrypt(p)
    /\ RunReported /\ outcome = "Found"
          => /\ reported.password # <<>>
             /\ Accepts(reported.password)
             /\ \E p \in accepted : reported.content = Decrypt(p)

C26_Witness ==
    /\ RunReported
    /\ outcome = "Found"
    /\ Cardinality(accepted) >= 2

\* C27: the password and the plaintext in the result slot when the run
\* reports Found were stored by the same worker for the same candidate, in
\* every interleaving in which two workers both verify successfully and both
\* store their result.
C27_ResultPairConsistent ==
    RunReported /\ outcome = "Found"
        => reported.content = Decrypt(reported.password)

\* C28: under fair scheduling every run terminates, for every worker count,
\* whether or not the password is among the candidates and whenever or if
\* never the interrupt arrives: every worker leaves its receive loop and
\* run() gets past its joins to the final report.
C28_EveryRunTerminates ==
    /\ <>(runPc = "returned" /\ AllWorkersFinished)
    /\ [](RunReported => AllWorkersFinished)

C28_Witness ==
    /\ runPc = "returned"
    /\ AllWorkersFinished
    /\ NumWorkers(num_cpus) >= 2
    /\ ~shutdown_signal
    /\ ~password_found
    /\ password_counter = Cardinality(Candidates)


\* C29: verify_zip_crypto_password returns false, with no byte read or
\* decrypted, for every ciphertext shorter than the 12-byte encryption
\* header, whatever the password and the expected CRC-32; for a ciphertext
\* of exactly 12 bytes it accepts exactly when expected_crc32 is the CRC-32
\* of the empty payload, 0.
C29_ShortCiphertext ==
    /\ vpc = "done" /\ Len(enc_data) < ZIP_CRYPTO_HEADER_SIZE
          => /\ vresult = FALSE
             /\ n_decrypted = 0
             /\ decrypted = <<>>
    /\ vpc = "done" /\ Len(enc_data) = ZIP_CRYPTO_HEADER_SIZE
          => /\ vresult = (expected_crc32 = U32(0, 0))
             /\ Crc32(<<>>) = U32(0, 0)
             /\ n_decrypted = ZIP_CRYPTO_HEADER_SIZE

C29_Witness ==
    /\ vpc = "done"
    /\ Len(enc_data) = ZIP_CRYPTO_HEADER_SIZE - 1
    /\ expected_crc32 = U32(0, 0)
    /\ vresult = FALSE


\* the generator is about to build, or is building, a candidate from indices
BuildsCandidate == genPc \in {"check_found", "check_shutdown", "send"}

\* the carry loop stopped at position p of the array before, giving after
IncrementedAt(before, after, p) ==
    /\ Len(after) = Len(before)
    /\ after[p] = before[p] + 1
    /\ after[p] < Len(gcharset)
    /\ \A k \in 1..Len(before) :
          /\ k < p => after[k] = before[k]
          /\ k > p => before[k] = Len(gcharset) - 1 /\ after[k] = 0

\* C30: in the generator's mixed-radix counter every index is in
\* 0..alphabet size - 1 whenever a candidate is built from the index array,
\* and after the carry loop either one position was incremented without
\* overflow (the positions to its right wrapped to 0) or all positions are 0
\* and the current length is finished.
C30_IndicesInRange ==
    /\ [](BuildsCandidate
            => /\ Len(indices) = length
               /\ \A k \in 1..Len(indices) :
                     indices[k] \in 0..(Len(gcharset) - 1))
    /\ [][genPc = "send" /\ genPc' # "send"
            => \/ /\ genPc' = "check_found"
                  /\ length' = length
                  /\ \E p \in 1..length : IncrementedAt(indices, indices', p)
               \/ /\ \A k \in 1..length : indices[k] = Len(gcharset) - 1
                  /\ Increment(indices).indices = ZeroIndices(length)
                  /\ \/ genPc' = "drop" /\ length = max_len
                     \/ /\ genPc' = "check_found"
                        /\ length' = length + 1
                        /\ indices' = ZeroIndices(length + 1)]_vars

C30_Witness ==
    /\ genPc = "send"
    /\ Len(gcharset) = 3
    /\ length = 3
    /\ indices = <<1, 0, 0>>

====
